---- MODULE Spec2Model ----
(***************************************************************************)
(* Recursive least squares notebook                                        *)
(* (Module 1 - Least Squares / Recursive Least Squares.ipynb).             *)
(*                                                                         *)
(* The notebook is a kernel session: the data cell binds I and V, and the  *)
(* batch, recursive and plotting cells are then executed one at a time.    *)
(* Numbers are exact rationals <<n, d>> (d > 0, lowest terms): the numpy   *)
(* expressions are evaluated with their real-number meaning, so float64    *)
(* rounding (of the order of 1e-15 here) is not part of the model.         *)
(***************************************************************************)
EXTENDS Integers, Sequences, FiniteSets, TLC

(* ----------------------------- bounds ---------------------------------- *)

\* Longest measurement sequence drawn from SmallPoints.
MaxMeas == 3

(* ------------------------ exact rational numbers ----------------------- *)

AbsInt(a) == IF a < 0 THEN 0 - a ELSE a

RECURSIVE Gcd(_, _)
Gcd(a, b) == IF b = 0 THEN a ELSE Gcd(b, a % b)

\* n/d in lowest terms with a positive denominator (d # 0).
Rat(n, d) ==
    LET g == Gcd(AbsInt(n), AbsInt(d))
        s == IF d < 0 THEN 0 - 1 ELSE 1
    IN  << (s * n) \div g, (s * d) \div g >>

Zero == << 0, 1 >>
One == << 1, 1 >>

Neg(p) == << 0 - p[1], p[2] >>

\* p + q: the integer parts are added apart from the fractional parts, which
\* keeps the intermediate products small.
Add(p, q) ==
    LET g == Gcd(p[2], q[2])
        f == Rat((p[1] % p[2]) * (q[2] \div g) + (q[1] % q[2]) * (p[2] \div g),
                 (p[2] \div g) * q[2])
    IN  << ((p[1] \div p[2]) + (q[1] \div q[2])) * f[2] + f[1], f[2] >>

Sub(p, q) == Add(p, Neg(q))

Mul(p, q) ==
    LET g1 == Gcd(AbsInt(p[1]), q[2])
        g2 == Gcd(AbsInt(q[1]), p[2])
    IN  << (p[1] \div g1) * (q[1] \div g2), (p[2] \div g2) * (q[2] \div g1) >>

\* 1/p, for p # 0.
Recip(p) == IF p[1] < 0 THEN << 0 - p[2], 0 - p[1] >> ELSE << p[2], p[1] >>

IsZero(p) == p[1] = 0
Positive(p) == p[1] > 0
NonNeg(p) == p[1] >= 0

\* p < q, by comparing the integer parts and then, reciprocally, the
\* fractional parts (no product of a numerator and a denominator is formed).
RECURSIVE Less(_, _)
Less(p, q) ==
    LET fp == p[1] \div p[2]
        fq == q[1] \div q[2]
        rp == p[1] % p[2]
        rq == q[1] % q[2]
    IN  IF fp # fq THEN fp < fq
        ELSE IF rq = 0 THEN FALSE
        ELSE IF rp = 0 THEN TRUE
        ELSE Less(<< q[2], rq >>, << p[2], rp >>)

Leq(p, q) == ~Less(q, p)
AbsRat(p) == << AbsInt(p[1]), p[2] >>

(* --------------------- 2-vectors and 2x2 matrices ---------------------- *)

\* [a, b] . [c, d]: the 1x2 by 2x1 products of the loop.
Dot(u, v) == Add(Mul(u[1], v[1]), Mul(u[2], v[2]))

\* A @ v for a 2x2 matrix A and a 2x1 column v.
MatVec(A, v) == << Dot(A[1], v), Dot(A[2], v) >>

\* u @ v for a 2x1 column u and a 1x2 row v.
Outer(u, v) ==
    << << Mul(u[1], v[1]), Mul(u[1], v[2]) >>,
       << Mul(u[2], v[1]), Mul(u[2], v[2]) >> >>

Col(A, j) == << A[1][j], A[2][j] >>

\* A @ B for 2x2 matrices.
MatMul(A, B) ==
    << << Dot(A[1], Col(B, 1)), Dot(A[1], Col(B, 2)) >>,
       << Dot(A[2], Col(B, 1)), Dot(A[2], Col(B, 2)) >> >>

MatSub(A, B) ==
    << << Sub(A[1][1], B[1][1]), Sub(A[1][2], B[1][2]) >>,
       << Sub(A[2][1], B[2][1]), Sub(A[2][2], B[2][2]) >> >>

MatAdd(A, B) ==
    << << Add(A[1][1], B[1][1]), Add(A[1][2], B[1][2]) >>,
       << Add(A[2][1], B[2][1]), Add(A[2][2], B[2][2]) >> >>

VecAdd(u, v) == << Add(u[1], v[1]), Add(u[2], v[2]) >>

Scale(c, v) == << Mul(c, v[1]), Mul(c, v[2]) >>

MatScale(c, A) == << Scale(c, A[1]), Scale(c, A[2]) >>

\* np.eye(2)
Eye2 == << << One, Zero >>, << Zero, One >> >>

Det(A) == Sub(Mul(A[1][1], A[2][2]), Mul(A[1][2], A[2][1]))

\* numpy.linalg.inv of a 2x2 matrix with a non-zero determinant.
Inv2(A) ==
    LET r == Recip(Det(A))
    IN  << << Mul(r, A[2][2]), Mul(r, Neg(A[1][2])) >>,
           << Mul(r, Neg(A[2][1])), Mul(r, A[1][1]) >> >>

IsSymmetric(A) == A[1][2] = A[2][1]

\* Positive semi-definite, for a symmetric 2x2 matrix.
IsPSD(A) == NonNeg(A[1][1]) /\ NonNeg(A[2][2]) /\ NonNeg(Det(A))

(* ------------------------- the session's inputs ------------------------ *)

\* A name that no cell has bound yet.
None == << >>

\* I and V of the data cell, in the order of the table.
CanonI == << Rat(2, 10), Rat(3, 10), Rat(4, 10), Rat(5, 10), Rat(6, 10) >>
CanonV == << Rat(123, 100), Rat(138, 100), Rat(206, 100), Rat(247, 100), Rat(317, 100) >>

\* The literals of the recursive cell: x_0, P_0 and the measurement variance.
CanonX0 == << Rat(4, 1), Zero >>
CanonP0 == << << Rat(9, 1), Zero >>, << Zero, Rat(2, 10) >> >>
CanonR == Rat(225, 10000)

CanonPrior == [x |-> CanonX0, P |-> CanonP0, R |-> CanonR]

\* Other (current, voltage) readings the data cell may be edited to hold.
SmallPoints == { << Zero, One >>, << One, Rat(3, 1) >>, << Rat(2, 1), Rat(2, 1) >> }

SmallData ==
    UNION { [1..n -> SmallPoints] : n \in 1..MaxMeas }

\* Other initialisations the recursive cell may be edited to hold ("Try
\* modifying the initialization"): an uncorrelated prior, a correlated positive
\* definite one, a singular positive semi-definite one and an indefinite one;
\* a unit, a zero and a negative measurement variance.
PriorMeans == { CanonX0, << Zero, One >> }
PriorCovs ==
    { << << Rat(2, 1), Zero >>, << Zero, One >> >>,
      << << Rat(2, 1), One >>, << One, One >> >>,
      << << One, One >>, << One, One >> >>,
      << << One, Rat(2, 1) >>, << Rat(2, 1), One >> >> }
NoiseVals == { One, Zero, Neg(One) }

Priors == [x : PriorMeans, P : PriorCovs, R : NoiseVals]

Column(d, j) == [i \in 1..Len(d) |-> d[i][j]]

Scenarios ==
    { [I |-> CanonI, V |-> CanonV, prior |-> CanonPrior] }
    \cup { [I |-> Column(d, 1), V |-> Column(d, 2), prior |-> p] :
             d \in SmallData, p \in Priors }

(* ------------------------------- state --------------------------------- *)

VARIABLES
    I,        \* the currents; rebound by the recursive loop (line 214)
    Ishape,   \* "col" for shape (n, 1), "flat" for shape (n,)
    V,        \* the voltages
    prior,    \* the literals the recursive cell assigns to x_k, P_k, R_k
    x_ls,     \* batch solution
    V_line,   \* (slope, offset) of the line last computed for plotting
    x_k, P_k, R_k, H_k, K_k,
    num_meas, \* 0 until the recursive cell binds it together with x_hist
    x_hist, P_hist,
    k,        \* number of iterations of the recursive loop completed
    printed,  \* what the recursive cell printed
    plotted,  \* the estimate lines drawn by the plotting cell
    pc,       \* "idle" between cells, "loop" inside the recursive cell
    err,      \* the exception that ended the last cell, or "none"
    first     \* what the first execution of the recursive cell left behind

dataVars == << I, Ishape, V, prior >>
batchVars == << x_ls, V_line >>
recVars == << x_k, P_k, R_k, H_k, K_k, num_meas, x_hist, P_hist, k, printed >>
vars == << dataVars, batchVars, recVars, plotted, pc, err, first >>

(* ------------------------------ data cell ------------------------------ *)

\* I = np.array([[...]]).T ; V = np.array([[...]]).T
Init ==
    /\ \E sc \in Scenarios :
         /\ I = sc.I
         /\ V = sc.V
         /\ prior = sc.prior
    /\ Ishape = "col"
    /\ x_ls = None /\ V_line = None
    /\ x_k = None /\ P_k = None /\ R_k = None /\ H_k = None /\ K_k = None
    /\ num_meas = 0 /\ x_hist = None /\ P_hist = None
    /\ k = 0
    /\ printed = None
    /\ plotted = None
    /\ pc = "idle"
    /\ err = "none"
    /\ first = None

(* ------------------------------ batch cell ----------------------------- *)

\* Rows of H = np.ones((5, 2)).
BatchRows == 5

RECURSIVE SumMat(_, _)
SumMat(H, n) ==
    IF n = 0 THEN << << Zero, Zero >>, << Zero, Zero >> >>
    ELSE MatAdd(SumMat(H, n - 1), Outer(H[n], H[n]))

RECURSIVE SumVec(_, _, _)
SumVec(H, y, n) ==
    IF n = 0 THEN << Zero, Zero >>
    ELSE VecAdd(SumVec(H, y, n - 1), Scale(y[n], H[n]))

\* H.T.dot(H) and H.T.dot(V) for the rows H[i] = [I[i], 1].
Rows(Is) == [i \in 1..Len(Is) |-> << Is[i], One >>]
Gram(Is) == SumMat(Rows(Is), Len(Is))
Moment(Is, Vs) == SumVec(Rows(Is), Vs, Len(Is))

\* Mutant: the fit without the offset column, V = R I.
BatchSolution_NoOffset(Is, Vs) ==
    << Mul(Moment(Is, Vs)[1], Recip(Gram(Is)[1][1])), Zero >>

\* x_ls = inv(H.T.dot(H)).dot(H.T.dot(V))
BatchSolution(Is, Vs) == MatVec(Inv2(Gram(Is)), Moment(Is, Vs))

BatchCell ==
    /\ pc = "idle"
    /\ IF Len(I) # BatchRows
       THEN \* H[:, 0] = I.ravel() cannot broadcast
            /\ err' = "ValueError"
            /\ UNCHANGED batchVars
       ELSE IF IsZero(Det(Gram(I)))
       THEN \* inv of a singular matrix
            /\ err' = "LinAlgError"
            /\ UNCHANGED batchVars
       ELSE /\ x_ls' = BatchSolution(I, V)
            /\ V_line' = x_ls'
            /\ err' = "none"
    /\ UNCHANGED << dataVars, recVars, plotted, pc, first >>

(* ---------------------------- recursive cell --------------------------- *)

\* Mutant: the columns of H_k exchanged.
Hrow_Swapped(i) == << One, i >>

\* H_k = np.array([[I[k], 1.0]])
Hrow(i) == << i, One >>

\* H_k @ P_k
RowMat(H, P) == << Dot(H, Col(P, 1)), Dot(H, Col(P, 2)) >>

\* Mutant: the measurement variance subtracted from H_k @ P_k @ H_k.T.
InnovCov_Minus(P, H, R) == Sub(Dot(RowMat(H, P), H), R)

\* H_k @ P_k @ H_k.T + R_k
InnovCov(P, H, R) == Add(Dot(RowMat(H, P), H), R)

\* Mutant: the factor inv(H_k @ P_k @ H_k.T + R_k) left out of the gain.
Gain_NoInverse(P, H, R) == MatVec(P, H)

\* K_k = P_k @ H_k.T @ np.linalg.inv(H_k @ P_k @ H_k.T + R_k)
Gain(P, H, R) == Scale(Recip(InnovCov(P, H, R)), MatVec(P, H))

\* Mutant: the innovation taken as V[k] + H_k @ x_k.
NextX_SignFlip(x, K, H, v) == VecAdd(x, Scale(Add(v, Dot(H, x)), K))

\* Mutant: the correction replaces the estimate instead of being added to it.
NextX_NoAccumulate(x, K, H, v) == Scale(Sub(v, Dot(H, x)), K)

\* x_k = x_k + K_k @ (V[k] - H_k @ x_k)
NextX(x, K, H, v) == VecAdd(x, Scale(Sub(v, Dot(H, x)), K))

\* Mutant: (np.eye(2) + K_k @ H_k) @ P_k.
NextP_Plus(P, K, H) == MatMul(MatAdd(Eye2, Outer(K, H)), P)

\* Mutant: the factors in the other order, P_k @ (np.eye(2) - K_k @ H_k).
NextP_Swapped(P, K, H) == MatMul(P, MatSub(Eye2, Outer(K, H)))

\* Mutant: the covariance is never updated.
NextP_Stale(P, K, H) == P

\* P_k = (np.eye(2) - K_k @ H_k) @ P_k
NextP(P, K, H) == MatMul(MatSub(Eye2, Outer(K, H)), P)

\* Mutant: the loop stops one measurement early.
RangeLen_Short(n) == n - 1

\* The number of iterations of "for k in range(num_meas)".
RangeLen(n) == n

\* Mutant: iteration j writes hist[j].
HistSlot_Same(j) == j + 1

\* The history entry that iteration j (counted from 0) writes: hist[j + 1], the
\* (j + 2)-th entry.
HistSlot(j) == j + 2

\* Mutant: one entry too few is allocated.
ZeroVecs_Short(n) == [i \in 1..(n - 1) |-> << Zero, Zero >>]

\* np.zeros((num_meas + 1, 2)) and np.zeros((num_meas + 1, 2, 2))
ZeroVecs(n) == [i \in 1..n |-> << Zero, Zero >>]
ZeroMats(n) == [i \in 1..n |-> << << Zero, Zero >>, << Zero, Zero >> >>]

\* The record of the first execution of the recursive cell to end: the
\* histories, the estimate and the error it ended with; later executions
\* leave the record alone.
FirstOutcome(xh, Ph, x, e) ==
    IF first = None THEN << xh, Ph, x, e >> ELSE first

\* Mutant: a cell that initialises x_k and P_k only when they are unbound, so
\* that a second execution starts from the estimate of the first.
RecursiveStart_KeepsState ==
    /\ pc = "idle"
    /\ x_k' = IF x_k = None THEN prior.x ELSE x_k
    /\ P_k' = IF P_k = None THEN prior.P ELSE P_k
    /\ R_k' = prior.R
    /\ num_meas' = Len(I)
    /\ x_hist' = [ZeroVecs(num_meas' + 1) EXCEPT ![1] = x_k']
    /\ P_hist' = [ZeroMats(num_meas' + 1) EXCEPT ![1] = P_k']
    /\ k' = 0
    /\ printed' = None
    /\ pc' = "loop"
    /\ err' = "none"
    /\ UNCHANGED << dataVars, batchVars, H_k, K_k, plotted, first >>

\* The cell up to the loop: x_k, P_k, R_k, num_meas, the histories and their
\* entry 0.
RecursiveStart ==
    /\ pc = "idle"
    /\ x_k' = prior.x
    /\ P_k' = prior.P
    /\ R_k' = prior.R
    /\ num_meas' = Len(I)
    /\ x_hist' = [ZeroVecs(num_meas' + 1) EXCEPT ![1] = x_k']
    /\ P_hist' = [ZeroMats(num_meas' + 1) EXCEPT ![1] = P_k']
    /\ k' = 0
    /\ printed' = None
    /\ pc' = "loop"
    /\ err' = "none"
    /\ UNCHANGED << dataVars, batchVars, H_k, K_k, plotted, first >>

\* Mutant: an iteration that updates the covariance only when the residual
\* V[k] - H_k x_k is positive.
RecursiveIter_ResidualCov ==
    /\ pc = "loop"
    /\ k < RangeLen(num_meas)
    /\ Ishape' = "flat"
    /\ H_k' = Hrow(I[k + 1])
    /\ IF IsZero(InnovCov(P_k, H_k', R_k))
       THEN /\ err' = "LinAlgError"
            /\ pc' = "idle"
            /\ UNCHANGED << K_k, x_k, P_k, P_hist, x_hist, k >>
            /\ first' = FirstOutcome(x_hist, P_hist, x_k, err')
       ELSE /\ K_k' = Gain(P_k, H_k', R_k)
            /\ x_k' = NextX(x_k, K_k', H_k', V[k + 1])
            /\ P_k' = IF Positive(Sub(V[k + 1], Dot(H_k', x_k)))
                      THEN NextP(P_k, K_k', H_k')
                      ELSE P_k
            /\ P_hist' = [P_hist EXCEPT ![HistSlot(k)] = P_k']
            /\ x_hist' = [x_hist EXCEPT ![HistSlot(k)] = x_k']
            /\ k' = k + 1
            /\ UNCHANGED << pc, err, first >>
    /\ UNCHANGED << I, V, prior, batchVars, R_k, num_meas, printed, plotted >>

\* One iteration of "for k in range(num_meas)".
RecursiveIter ==
    /\ pc = "loop"
    /\ k < RangeLen(num_meas)
    /\ Ishape' = "flat"
    /\ H_k' = Hrow(I[k + 1])
    /\ IF IsZero(InnovCov(P_k, H_k', R_k))
       THEN \* np.linalg.inv of a singular 1x1 matrix
            /\ err' = "LinAlgError"
            /\ pc' = "idle"
            /\ UNCHANGED << K_k, x_k, P_k, P_hist, x_hist, k >>
            /\ first' = FirstOutcome(x_hist, P_hist, x_k, err')
       ELSE /\ K_k' = Gain(P_k, H_k', R_k)
            /\ x_k' = NextX(x_k, K_k', H_k', V[k + 1])
            /\ P_k' = NextP(P_k, K_k', H_k')
            /\ P_hist' = [P_hist EXCEPT ![HistSlot(k)] = P_k']
            /\ x_hist' = [x_hist EXCEPT ![HistSlot(k)] = x_k']
            /\ k' = k + 1
            /\ UNCHANGED << pc, err, first >>
    /\ UNCHANGED << I, V, prior, batchVars, R_k, num_meas, printed, plotted >>

\* The loop is exhausted: print x_k[0, 0] and x_k[1, 0].
RecursivePrint ==
    /\ pc = "loop"
    /\ k = RangeLen(num_meas)
    /\ printed' = << x_k[1], x_k[2] >>
    /\ pc' = "idle"
    /\ first' = FirstOutcome(x_hist, P_hist, x_k, err)
    /\ UNCHANGED << dataVars, batchVars, x_k, P_k, R_k, H_k, K_k,
                    num_meas, x_hist, P_hist, k, plotted, err >>

(* ----------------------------- plotting cell --------------------------- *)

\* Line j of "for k in range(num_meas)": label 'Measurement {k}', drawn from
\* x_hist[k].
PlotLines(hist, n) == [j \in 1..n |-> << j - 1, hist[j] >>]

PlotCell ==
    /\ pc = "idle"
    /\ IF V_line = None
       THEN \* plt.plot(I_line, V_line): the batch cell has bound neither
            /\ err' = "NameError"
            /\ UNCHANGED << V_line, plotted >>
       ELSE IF x_hist = None
       THEN \* range(num_meas): the recursive cell has not run
            /\ err' = "NameError"
            /\ plotted' = None
            /\ UNCHANGED V_line
       ELSE /\ plotted' = PlotLines(x_hist, num_meas)
            /\ V_line' = x_hist[num_meas]
            /\ err' = "none"
    /\ UNCHANGED << dataVars, x_ls, recVars, pc, first >>

(* ---------------------------- specification ---------------------------- *)

Next ==
    \/ BatchCell
    \/ RecursiveStart
    \/ RecursiveIter
    \/ RecursivePrint
    \/ PlotCell

Spec == Init /\ [][Next]_vars

(* ------------------------- reference quantities ------------------------ *)

\* The recursive cell has run to its print statements.
RunDone == pc = "idle" /\ printed # None

\* The session holds the notebook's own data and initialisation.
IsCanonical == I = CanonI /\ V = CanonV /\ prior = CanonPrior

\* The prior covariance is symmetric positive semi-definite and the
\* measurement variance is positive.
ValidPrior == IsSymmetric(prior.P) /\ IsPSD(prior.P)
ValidNoise == Positive(prior.R)

\* |a - b| <= tol
Within(a, b, tol) == Leq(Sub(b, tol), a) /\ Leq(a, Add(b, tol))

\* (x, P) after the loop has processed the first n of the measurements
\* (Is, Vs) from the initialisation pr.
RECURSIVE RlsAfter(_, _, _, _)
RlsAfter(Is, Vs, pr, n) ==
    IF n = 0 THEN << pr.x, pr.P >>
    ELSE LET s == RlsAfter(Is, Vs, pr, n - 1)
             H == Hrow(Is[n])
             K == Gain(s[2], H, pr.R)
         IN  << NextX(s[1], K, H, Vs[n]), NextP(s[2], K, H) >>

(* --------------------------------- C1 ---------------------------------- *)

\* C1: in the canonical run the estimate after the fifth update, which the
\* cell prints, is within 1e-3 of (4.9769, 0.0697).
C1_CanonicalEstimate ==
    (IsCanonical /\ RunDone) =>
        /\ k = 5
        /\ Within(x_k[1], Rat(49769, 10000), Rat(1, 1000))
        /\ Within(x_k[2], Rat(697, 10000), Rat(1, 1000))
        /\ printed = x_k

C1_Witness ==
    /\ IsCanonical /\ RunDone /\ k = 5
    /\ x_k = << Rat(488958, 98245), Rat(6844, 98245) >>

(* --------------------------------- C2 ---------------------------------- *)

\* C2: in the canonical session the batch cell computes exactly
\* (R, b) = (4.970, 0.074); the final recursive estimate is within 0.01 of it
\* in both components, and closer to it in both than the prior mean (4, 0).
C2_BatchAgreement ==
    (IsCanonical /\ x_ls # None) =>
        /\ x_ls = << Rat(4970, 1000), Rat(74, 1000) >>
        /\ RunDone =>
             \A i \in 1..2 :
                /\ Within(x_k[i], x_ls[i], Rat(1, 100))
                /\ Less(AbsRat(Sub(x_k[i], x_ls[i])),
                        AbsRat(Sub(prior.x[i], x_ls[i])))

C2_Witness == IsCanonical /\ x_ls # None /\ RunDone /\ k = 5 /\ x_k # x_ls

(* --------------------------------- C3 ---------------------------------- *)

\* C3: with a symmetric positive semi-definite prior covariance and a positive
\* measurement variance, no step of the loop increases a diagonal entry of
\* P_k, and the recorded history P_hist[0..k] is non-increasing on the
\* diagonal from the prior on.
C3_Shrinks ==
    (pc = "loop" /\ ValidPrior /\ ValidNoise) =>
        /\ Leq(P_k'[1][1], P_k[1][1])
        /\ Leq(P_k'[2][2], P_k[2][2])
        /\ \A j \in 1..k' : \A i \in 1..2 :
              Leq(P_hist'[j + 1][i][i], P_hist'[j][i][i])

\* C3: every step of the session satisfies C3_Shrinks (monotonic shrinkage of
\* the diagonal of P).
C3_MonotoneDiagonal == [][C3_Shrinks]_vars

C3_Witness ==
    /\ pc = "loop" /\ ValidPrior /\ ValidNoise /\ k >= 2
    /\ \A j \in 1..k : \A i \in 1..2 :
          Less(P_hist[j + 1][i][i], P_hist[j][i][i])

(* --------------------------------- C4 ---------------------------------- *)

\* The sequence d read in the order s (a permutation of its indices).
Permuted(d, s) == [i \in 1..Len(d) |-> d[s[i]]]

\* C4: for a symmetric positive semi-definite prior covariance and a positive
\* measurement variance, processing the same measurements in any other order
\* ends with the same x as the run that was made.
C4_OrderInvariant ==
    (RunDone /\ ValidPrior /\ ValidNoise) =>
        \A s \in Permutations(1..num_meas) :
            RlsAfter(Permuted(I, s), Permuted(V, s), prior, num_meas)[1] = x_k

\* A completed run of three measurements for which another order gives a
\* different estimate after the first update and the same final one.
C4_Witness ==
    /\ RunDone /\ ValidPrior /\ ValidNoise /\ num_meas >= 3
    /\ \E s \in Permutations(1..num_meas) :
          /\ RlsAfter(Permuted(I, s), Permuted(V, s), prior, 1)[1] # x_hist[2]
          /\ RlsAfter(Permuted(I, s), Permuted(V, s), prior, num_meas)[1] = x_k

(* --------------------------------- C5 ---------------------------------- *)

\* C5: from the moment the recursive cell has allocated them, x_hist and
\* P_hist each hold exactly num_meas + 1 entries, num_meas being the number
\* of measurements supplied.
C5_HistoryLength ==
    (x_hist # None) =>
        /\ num_meas = Len(I)
        /\ num_meas = Len(V)
        /\ Len(x_hist) = num_meas + 1
        /\ Len(P_hist) = num_meas + 1

\* Mid-run: one update made, more to come, the histories already full length.
C5_Witness ==
    /\ pc = "loop" /\ k = 1 /\ num_meas >= 3
    /\ Len(x_hist) = num_meas + 1
    /\ Len(P_hist) = num_meas + 1

(* --------------------------------- C6 ---------------------------------- *)

\* C6: after a completed run, history entry 0 is the prior, entry j is the
\* pair (x, P) that j updates produce from the prior, and the last entry is the
\* final x_k, P_k, which is what is printed.
C6_HistoryIndexing ==
    RunDone =>
        /\ x_hist[1] = prior.x
        /\ P_hist[1] = prior.P
        /\ \A j \in 1..num_meas :
              << x_hist[j + 1], P_hist[j + 1] >> = RlsAfter(I, V, prior, j)
        /\ x_hist[num_meas + 1] = x_k
        /\ P_hist[num_meas + 1] = P_k
        /\ printed = x_k

C6_Witness ==
    /\ RunDone /\ num_meas >= 2
    /\ x_hist[1] = prior.x
    /\ x_hist[2] # x_hist[1]
    /\ x_hist[3] # x_hist[2]
    /\ P_hist[3] # P_hist[2]
    /\ x_hist[num_meas + 1] = x_k

(* --------------------------------- C7 ---------------------------------- *)

\* C7: with a symmetric positive semi-definite prior covariance and a positive
\* measurement variance, P_k and every recorded P_hist entry is symmetric and
\* positive semi-definite.
C7_CovarianceInvariant ==
    (P_k # None /\ ValidPrior /\ ValidNoise) =>
        /\ IsSymmetric(P_k) /\ IsPSD(P_k)
        /\ \A j \in 1..(k + 1) : IsSymmetric(P_hist[j]) /\ IsPSD(P_hist[j])

C7_Witness ==
    /\ ValidPrior /\ ValidNoise /\ pc = "loop" /\ k >= 2
    /\ ~IsZero(P_k[1][2])
    /\ P_k # P_hist[k]
    /\ IsSymmetric(P_k) /\ IsPSD(P_k)

(* --------------------------------- C8 ---------------------------------- *)

\* C8: an update made from (x, P) with H P H^T > 0 leaves the residual
\* V_k - H x_new = (R / S) (V_k - H x), S = H P H^T + R.  Hence H x_new = V_k
\* when R = 0, and for R >= 0 the residual is at most (R / (H P H^T)) times
\* the old one, which vanishes with R.
C8_Step ==
    (pc = "loop" /\ k' = k + 1 /\ Positive(Dot(RowMat(H_k', P_k), H_k'))) =>
        LET HPH == Dot(RowMat(H_k', P_k), H_k')
            S == InnovCov(P_k, H_k', R_k)
            r == Sub(V[k'], Dot(H_k', x_k))
            rNew == Sub(V[k'], Dot(H_k', x_k'))
        IN  /\ rNew = Mul(Mul(R_k, Recip(S)), r)
            /\ IsZero(R_k) => Dot(H_k', x_k') = V[k']
            /\ NonNeg(R_k) =>
                 Leq(Mul(AbsRat(rNew), HPH), Mul(R_k, AbsRat(r)))

\* C8: every update of the session satisfies C8_Step (the residual left by
\* one update is R / S times the residual before it).
C8_ZeroNoiseLimit == [][C8_Step]_vars

\* One update with zero measurement variance has moved x onto the observation.
C8_Witness ==
    /\ pc = "loop" /\ k = 1 /\ IsZero(R_k)
    /\ x_k # prior.x
    /\ Dot(H_k, x_k) = V[1]
    /\ Dot(H_k, prior.x) # V[1]

(* --------------------------------- C9 ---------------------------------- *)

\* C9 as claimed: a run of one measurement with I = 0 leaves the slope
\* estimate unchanged for any symmetric positive semi-definite prior
\* covariance.
C9_AnyPriorKeepsSlope ==
    (RunDone /\ num_meas = 1 /\ IsZero(I[1]) /\ ValidPrior /\ ValidNoise) =>
        x_k[1] = prior.x[1]

\* C9 as amended: a run of one measurement with I = 0 leaves the slope
\* estimate unchanged when the prior covariance has zero off-diagonal entries.
C9_DiagonalPriorKeepsSlope ==
    (/\ RunDone /\ num_meas = 1 /\ IsZero(I[1]) /\ ValidPrior /\ ValidNoise
     /\ IsZero(prior.P[1][2]) /\ IsZero(prior.P[2][1])) =>
        x_k[1] = prior.x[1]

C9_Witness ==
    /\ RunDone /\ num_meas = 1 /\ IsZero(I[1]) /\ ValidPrior /\ ValidNoise
    /\ IsZero(prior.P[1][2]) /\ IsZero(prior.P[2][1])
    /\ x_k[1] = prior.x[1]
    /\ x_k[2] # prior.x[2]

(* --------------------------------- C10 --------------------------------- *)

\* inv(R inv(P0) + H^T H) (R inv(P0) x0 + H^T V): the least-squares solution
\* over the measurements with the prior counted as information.
RegularisedBatch(Is, Vs, pr) ==
    LET W == MatScale(pr.R, Inv2(pr.P))
    IN  MatVec(Inv2(MatAdd(W, Gram(Is))), VecAdd(MatVec(W, pr.x), Moment(Is, Vs)))

\* C10 as claimed: the final x of a completed run equals the batch solution
\* x_ls over the same measurements.
C10_EqualsBatch ==
    (RunDone /\ ValidNoise /\ x_ls # None) => x_k = x_ls

\* C10 as amended: with a positive measurement variance and an invertible
\* prior covariance, the final x of a completed run equals the batch solution
\* regularised by the prior.
C10_EqualsRegularisedBatch ==
    (RunDone /\ ValidNoise /\ ~IsZero(Det(prior.P))) =>
        x_k = RegularisedBatch(I, V, prior)

C10_Witness ==
    /\ RunDone /\ IsCanonical /\ x_ls # None
    /\ x_k = RegularisedBatch(I, V, prior)
    /\ x_k # x_ls

(* --------------------------------- C11 --------------------------------- *)

\* C11 as claimed: a loop iteration that finds the measurement variance
\* non-positive, or the innovation covariance singular, ends in an error and
\* leaves x_k, P_k and the histories as they were.
C11_Rejects ==
    (/\ pc = "loop" /\ k < num_meas
     /\ \/ ~Positive(R_k)
        \/ IsZero(InnovCov(P_k, Hrow(I[k + 1]), R_k))) =>
        /\ err' # "none"
        /\ UNCHANGED << x_k, P_k, x_hist, P_hist >>

\* C11: every step of the session satisfies C11_Rejects (degenerate noise
\* is refused before any state is touched).
C11_DegenerateNoiseRejected == [][C11_Rejects]_vars

(* --------------------------------- C12 --------------------------------- *)

\* C12: an iteration that updates computes, from the x_k and P_k it started
\* with and the pair (I[k], V[k]): H = [I[k], 1], S = H P H^T + R,
\* K = P H^T / S, r = V[k] - H x, and ends with x_k = x + K r and
\* P_k = (I2 - K H) P, both built with that one K and that pre-update P.
C12_Update ==
    (pc = "loop" /\ k' = k + 1) =>
        LET H == << I[k + 1], One >>
            PH == MatVec(P_k, H)
            S == Add(Dot(H, PH), R_k)
            K == << Mul(PH[1], Recip(S)), Mul(PH[2], Recip(S)) >>
            r == Sub(V[k + 1], Dot(H, x_k))
        IN  /\ H_k' = H
            /\ K_k' = K
            /\ x_k' = << Add(x_k[1], Mul(K[1], r)), Add(x_k[2], Mul(K[2], r)) >>
            /\ P_k' = MatMul(MatSub(Eye2, Outer(K, H)), P_k)

\* C12: every updating step of the session satisfies C12_Update (the six
\* update equations over the pre-update state).
C12_UpdateEquations == [][C12_Update]_vars

\* After the second update of a run whose covariance is correlated: the gain
\* differs from the one a stale or an already-updated P would give.
C12_Witness ==
    /\ pc = "loop" /\ k = 2
    /\ K_k = Gain(P_hist[2], H_k, R_k)
    /\ K_k # Gain(P_hist[1], H_k, R_k)
    /\ K_k # Gain(P_hist[3], H_k, R_k)
    /\ P_k = NextP(P_hist[2], K_k, H_k)
    /\ x_k # x_hist[2]

(* --------------------------------- C13 --------------------------------- *)

\* C13: the estimate exists only once the prior has been set and recorded as
\* history entry 0; x_k and P_k then change only by an update, an update
\* consumes measurement k and moves k to k + 1, and the loop ends (the cell
\* prints) exactly when k = num_meas.  With a symmetric positive semi-definite
\* prior covariance and a positive measurement variance every iteration
\* updates, so a run makes exactly num_meas updates.  Inside the loop
\* either measurement k is there to be consumed or k = num_meas, and k only
\* grows, so the loop ends.
C13_Step ==
    /\ (x_hist = None) => (x_k = None /\ P_k = None /\ k = 0 /\ pc = "idle")
    /\ (x_hist # None) => (k <= num_meas /\ num_meas = Len(I))
    /\ (pc = "idle" /\ pc' = "loop") =>
          /\ k' = 0
          /\ x_k' = prior.x /\ P_k' = prior.P
          /\ x_hist'[1] = prior.x /\ P_hist'[1] = prior.P
    /\ (pc = "loop" /\ k < num_meas) =>
          \/ /\ k' = k + 1 /\ pc' = "loop"
             /\ H_k'[1] = I[k + 1]
             /\ << x_k', P_k' >> = RlsAfter(<< I[k + 1] >>, << V[k + 1] >>,
                                            [prior EXCEPT !.x = x_k, !.P = P_k], 1)
          \/ /\ ~(ValidPrior /\ ValidNoise)
             /\ pc' = "idle" /\ err' = "LinAlgError"
             /\ UNCHANGED << x_k, P_k, k >>
    /\ (pc = "loop" /\ k = num_meas) =>
          /\ pc' = "idle" /\ printed' = x_k
          /\ UNCHANGED << x_k, P_k, k >>
    /\ (pc = "loop" /\ pc' = "idle" /\ err' = "none") => k = num_meas
    /\ (pc = "loop") =>
          IF k < num_meas
          THEN k + 1 \in DOMAIN I /\ k + 1 \in DOMAIN V
          ELSE k = num_meas
    /\ (pc = "idle" /\ pc' = "idle") => UNCHANGED << x_k, P_k, k >>

\* C13: every step of the session satisfies C13_Step (one update per
\* measurement, in index order, between the initialisation and the print).
C13_Sequencing == [][C13_Step]_vars

\* A completed run of three updates, each of which moved the estimate.
C13_Witness ==
    /\ RunDone /\ num_meas = 3 /\ k = 3
    /\ x_hist[2] # x_hist[1] /\ x_hist[3] # x_hist[2] /\ x_hist[4] # x_hist[3]
    /\ x_k = x_hist[4]

(* --------------------------------- C14 --------------------------------- *)

\* C14: within a run, an update writes history entry k + 1 (counted from 0)
\* of x_hist and of P_hist and no other entry, and no other step writes any:
\* the entries already written keep their values while x_k and P_k move on,
\* and the entries not yet written stay zero.
C14_Step ==
    (x_hist # None /\ ~(pc = "idle" /\ pc' = "loop")) =>
        /\ \A j \in 1..(num_meas + 1) :
              (~(pc = "loop" /\ k' = k + 1 /\ j = k + 2)) =>
                  (x_hist'[j] = x_hist[j] /\ P_hist'[j] = P_hist[j])
        /\ (pc = "loop" /\ k' = k + 1) =>
              (x_hist'[k + 2] = x_k' /\ P_hist'[k + 2] = P_k')
        /\ \A j \in (k' + 2)..(num_meas + 1) :
              (x_hist'[j] = << Zero, Zero >> /\ P_hist'[j] = ZeroMats(1)[1])

\* C14: every step of the session satisfies C14_Step (history is
\* append-only within a run).
C14_AppendOnly == [][C14_Step]_vars

\* Two updates made: entries 0 and 1 still hold the prior and the first
\* estimate although x_k and P_k have since changed.
C14_Witness ==
    /\ pc = "loop" /\ k = 2 /\ num_meas = 3
    /\ x_hist[1] = prior.x /\ P_hist[1] = prior.P
    /\ x_hist[2] # x_k /\ P_hist[2] # P_k
    /\ x_hist[2] # x_hist[1]
    /\ x_hist[3] = x_k /\ P_hist[3] = P_k
    /\ x_hist[4] = << Zero, Zero >>

(* --------------------------------- C15 --------------------------------- *)

\* C15: while the loop runs, I and V keep their values, their order and their
\* shape, and the current an update reads is the k-th one supplied.
C15_Step ==
    (pc = "loop") =>
        /\ I' = I /\ V' = V
        /\ Ishape' = Ishape
        /\ (k' = k + 1) => H_k'[1] = I[k + 1]

\* C15: every step of the session satisfies C15_Step (the inputs are
\* read-only, with no reshaping side effect).
C15_InputsReadOnly == [][C15_Step]_vars

(* --------------------------------- C16 --------------------------------- *)

\* C16: a plotting cell that succeeds draws one estimate line per history
\* entry 0..num_meas, the line labelled j being the estimate after j
\* measurements, so the last line drawn is the final estimate
\* x_hist[num_meas].
C16_Step ==
    (plotted' # plotted /\ plotted' # None) =>
        /\ Len(plotted') = num_meas + 1
        /\ \A j \in 1..Len(plotted') : plotted'[j] = << j - 1, x_hist[j] >>
        /\ plotted'[Len(plotted')] = << num_meas, x_hist[num_meas + 1] >>

\* C16: every step of the session satisfies C16_Step (the plot shows the
\* solution at each step of the recursion, the final one included).
C16_PlotsEveryStep == [][C16_Step]_vars

(* --------------------------------- C17 --------------------------------- *)

\* The first n entries of a sequence.
Prefix(s, n) == SubSeq(s, 1, n)

\* inv(P0) + (1/R) sum_{i <= n} H_i^T H_i: the information held after n
\* measurements.
Information(Is, pr, n) ==
    MatAdd(Inv2(pr.P), MatScale(Recip(pr.R), Gram(Prefix(Is, n))))

\* inv(P0) x0 + (1/R) sum_{i <= n} H_i^T V_i
InformationMean(Is, Vs, pr, n) ==
    VecAdd(MatVec(Inv2(pr.P), pr.x),
           Scale(Recip(pr.R), Moment(Prefix(Is, n), Prefix(Vs, n))))

\* C17: with a symmetric invertible prior covariance and a positive
\* measurement variance, after k updates P_k is the inverse of the
\* information held and x_k is P_k applied to the information mean: the
\* prior-weighted least-squares solution over the first k measurements.
C17_ClosedForm ==
    (x_hist # None /\ ValidNoise /\ IsSymmetric(prior.P)
        /\ ~IsZero(Det(prior.P))) =>
        /\ P_k = Inv2(Information(I, prior, k))
        /\ x_k = MatVec(P_k, InformationMean(I, V, prior, k))

\* Two of three measurements processed from a correlated prior: the state
\* has left the prior and has the closed form.
C17_Witness ==
    /\ pc = "loop" /\ k = 2 /\ num_meas = 3
    /\ ValidNoise /\ IsSymmetric(prior.P) /\ ~IsZero(Det(prior.P))
    /\ prior.P[1][2] # Zero
    /\ x_k # prior.x /\ P_k # prior.P
    /\ P_k = Inv2(Information(I, prior, k))
    /\ x_k = MatVec(P_k, InformationMean(I, V, prior, k))

(* --------------------------------- C18 --------------------------------- *)

\* Other voltages that could have been observed with the same currents.
OtherVoltages(Vs) ==
    { [i \in 1..Len(Vs) |-> Zero],
      [i \in 1..Len(Vs) |-> Add(Vs[i], One)],
      [i \in 1..Len(Vs) |-> Vs[Len(Vs) + 1 - i]] }

\* Other prior means.
OtherMeans == PriorMeans \cup { << Zero, Zero >> }

\* C18: an update leaves the P, and uses the gain K, that a run with the same
\* prior covariance, currents and measurement variance but other voltages
\* and another prior mean has at that step.
C18_Step ==
    (pc = "loop" /\ k' = k + 1) =>
        \A Vs \in OtherVoltages(V) : \A m \in OtherMeans :
            LET pr == [prior EXCEPT !.x = m]
                before == RlsAfter(I, Vs, pr, k)
                after == RlsAfter(I, Vs, pr, k + 1)
            IN  /\ before[2] = P_k
                /\ Gain(before[2], Hrow(I[k + 1]), prior.R) = K_k'
                /\ after[2] = P_k'

\* C18: every update of the session satisfies C18_Step (the covariance and
\* the gain do not depend on the observations or on the prior mean).
C18_CovarianceBlind == [][C18_Step]_vars

\* The second update is done: a run with other voltages and another prior
\* mean has the same P and another x.
C18_Witness ==
    /\ pc = "loop" /\ k = 2 /\ num_meas = 3
    /\ P_k # prior.P
    /\ \E Vs \in OtherVoltages(V) : \E m \in OtherMeans :
          LET other == RlsAfter(I, Vs, [prior EXCEPT !.x = m], 2)
          IN  /\ Vs # V /\ m # prior.x
              /\ other[2] = P_k /\ other[1] # x_k

(* --------------------------------- C19 --------------------------------- *)

\* The currents of the data sets of the model.
Currents == { CanonI[i] : i \in 1..Len(CanonI) } \cup { p[1] : p \in SmallPoints }

\* C19: in a run with a symmetric positive semi-definite prior covariance
\* and a positive measurement variance, the innovation covariance of the
\* P_k reached is at least R_k > 0 for the measurement at hand and for any
\* other current, and the iteration inverts it and updates without error.
C19_Step ==
    (pc = "loop" /\ k < num_meas /\ ValidPrior /\ ValidNoise) =>
        /\ Positive(R_k)
        /\ \A i \in Currents \cup { I[k + 1] } :
              Leq(R_k, InnovCov(P_k, Hrow(i), R_k))
        /\ err' = "none" /\ k' = k + 1
        /\ Scale(InnovCov(P_k, Hrow(I[k + 1]), R_k), K_k') = MatVec(P_k, H_k')

\* C19: every iteration of the session satisfies C19_Step (no singular
\* inversion in valid runs).
C19_NoSingularInversion == [][C19_Step]_vars

\* A valid run from a singular prior covariance about to process its second
\* measurement: the innovation covariance exceeds the measurement variance.
C19_Witness ==
    /\ pc = "loop" /\ k = 1 /\ k < num_meas
    /\ ValidPrior /\ ValidNoise
    /\ IsZero(Det(prior.P)) /\ IsZero(Det(P_k))
    /\ Less(R_k, InnovCov(P_k, Hrow(I[k + 1]), R_k))
    /\ err = "none"

(* --------------------------------- C20 --------------------------------- *)

\* C20: when an execution of the recursive cell ends after an earlier one
\* has, it leaves the x_hist, P_hist and x_k (and the error, if any) that the
\* first execution left, whatever cells ran in between; the record of the
\* first execution is never rewritten.
C20_Step ==
    /\ (first # None) => first' = first
    /\ (pc = "loop" /\ pc' = "idle") =>
          << x_hist', P_hist', x_k', err' >> = first'
    /\ (pc = "loop" /\ pc' = "idle" /\ err' = "none") => printed' = first'[3]

\* C20: every step of the session satisfies C20_Step (re-execution is
\* idempotent).
C20_Idempotent == [][C20_Step]_vars

\* The notebook's session with the batch and plotting cells run after a
\* first execution that reshaped I: a later execution has made its five
\* updates and holds what the first one left.
C20_Witness ==
    /\ IsCanonical /\ Ishape = "flat"
    /\ first # None /\ x_ls # None /\ plotted # None
    /\ pc = "loop" /\ k = num_meas /\ num_meas = 5
    /\ << x_hist, P_hist, x_k, err >> = first
    /\ x_k # prior.x

====
